---- MODULE Spec2Model ----
(***************************************************************************)
(* A model of the stm state machine engine (src/stm.go): one scheduler     *)
(* loop that consumes a buffered channel of messages, and one goroutine    *)
(* per dispatched command that invokes the command and forwards its result *)
(* (a message, or a batch of further commands) to the channel.             *)
(***************************************************************************)
EXTENDS Integers, Sequences, FiniteSets, Bags, TLC

\* ------------------------------------------------------------------ bounds
\* Number of Send calls made by callers outside the machine.
MaxSends == 2
\* Largest size given to WithMessageBufferSize (sizes 0..MaxBufferSize).
MaxBufferSize == 1
\* Number of TransitionTo calls in the runs that exercise TransitionTo alone.
MaxTransitions == 2

\* ------------------------------------------------------- program constants
DefaultMessageBufferSize == 10

\* ------------------------------------------------------- messages, commands
\* The nil Msg (an interface value holding nothing).
NoMsg == "nil"

\* The nil Cmd.
NilCmd == [kind |-> "nil", msg |-> NoMsg, d |-> 0, cmds |-> <<>>]

\* ToCmd(msg): a command returning msg at once.
ToCmd(m) == [kind |-> "tocmd", msg |-> m, d |-> 0, cmds |-> <<>>]

\* Batch(cmds...): a command returning the batched value of cmds.
Batch(cs) == [kind |-> "batch", msg |-> NoMsg, d |-> 0, cmds |-> cs]

\* Timer(t, msg): a command returning msg after waiting t.
Timer(t, m) == [kind |-> "timer", msg |-> m, d |-> t, cmds |-> <<>>]

\* What invoking a command returns: a Msg that is either a plain value
\* (possibly nil) or a batched slice of commands.
PlainResult(m) == [batched |-> FALSE, msg |-> m, cmds |-> <<>>]
BatchedResult(cs) == [batched |-> TRUE, msg |-> NoMsg, cmds |-> cs]

\* The value returned by the closure of a command (ToCmd, Batch, and Timer
\* once its wait is over).
Invoke(cmd) ==
    IF cmd.kind = "batch" THEN BatchedResult(cmd.cmds) ELSE PlainResult(cmd.msg)

\* Timer clamps a negative duration to zero before it starts the timer.
ClampDuration(t) == IF t < 0 THEN 0 ELSE t

\* ------------------------------------------------------------------ state
VARIABLES
    messages,   \* stm.messages: the content of the channel, oldest first
    options,    \* the opts New was called with (sizes of WithMessageBufferSize)
    capacity,   \* cap(stm.messages)
    state,      \* stm.state
    ctxDone,    \* whether stm.ctx.Done() is closed
    loopPc,     \* the loop goroutine: "select" or "returned"
    paths,      \* bag of the goroutines started by Send that are alive
    sends,      \* number of Send calls made from outside so far
    sentBag,    \* history: bag of the commands passed to Send from outside
    spawned,    \* history: number of goroutines Send has started
    enqueued,   \* history: the messages in the order they entered the channel
    updates,    \* history: <<state, msg>> of every Update call, in order
    initCalls   \* history: the states whose Init() has been called, in order

vars == <<messages, options, capacity, state, ctxDone, loopPc, paths, sends, sentBag,
          spawned, enqueued, updates, initCalls>>

\* ------------------------------------------------------- the user's states
\* The State implementations given to the machine.  S0 is the initial
\* state; on "start" it uses TransitionTo to enter S1 (whose Init sends
\* "init") with the follow-up command ToCmd("after"); S1 moves on to S2
\* once its initialisation message arrives.
States == {"S0", "S1", "S2"}

\* State.Init of each state.
StateInit(s) ==
    CASE s = "S0" -> ToCmd("init0")
      [] s = "S1" -> ToCmd("init")
      [] OTHER    -> NilCmd

\* A TransitionTo that puts the Init command after the follow-ups.
TransitionToInitLast(s, cs) ==
    [state |-> s, cmd |-> Batch(cs \o <<StateInit(s)>>), inited |-> <<s>>]

\* A TransitionTo that hands back the state the machine is in instead of the
\* state it was given.
TransitionToKeepsState(s, cs) ==
    [state |-> state, cmd |-> Batch(<<StateInit(s)>> \o cs), inited |-> <<s>>]

\* TransitionTo(state, cmds...): calls state.Init() and returns the state with
\* the batch of the init command followed by cmds.
TransitionTo(s, cs) ==
    [state |-> s, cmd |-> Batch(<<StateInit(s)>> \o cs), inited |-> <<s>>]

\* Returning (state, cmd) from Update without a transition helper.
Stay(s, c) == [state |-> s, cmd |-> c, inited |-> <<>>]

\* State.Update of each state.
StateUpdate(s, m) ==
    CASE s = "S0" /\ m = "ping"  -> Stay("S0", ToCmd("pong"))
      [] s = "S0" /\ m = "start" -> TransitionTo("S1", <<ToCmd("after")>>)
      [] s = "S1" /\ m = "init"  -> Stay("S2", NilCmd)
      [] OTHER                   -> Stay(s, NilCmd)

\* ------------------------------------------------------------- goroutines
\* A goroutine started by Send.  pc is its position:
\*   "run"     about to invoke cmd
\*   "timer"   inside Timer's closure, waiting on timer.C (rem left, el waited)
\*   "unroll"  in the range loop over a batch, rest still to send
\*   "enqueue" at stm.messages <- msg
Path(pc, cmd, msg, rest, rem, el) ==
    [pc |-> pc, cmd |-> cmd, msg |-> msg, rest |-> rest, rem |-> rem, el |-> el]

NewPath(cmd) == Path("run", cmd, NoMsg, <<>>, 0, 0)

One(p) == SetToBag({p})

\* The sum of f[x] over the x of the finite set S.
RECURSIVE SumSet(_, _)
SumSet(S, f) ==
    IF S = {} THEN 0
    ELSE LET x == CHOOSE y \in S : TRUE IN f[x] + SumSet(S \ {x}, f)

\* A Send that starts a goroutine for a nil command too.
SpawnUnchecked(ps, cmd) == ps (+) One(NewPath(cmd))

\* A Send that starts no goroutine while two are alive (a pool of two
\* workers).
SpawnBounded(ps, cmd) ==
    IF cmd = NilCmd \/ BagCardinality(ps) >= 2 THEN ps ELSE ps (+) One(NewPath(cmd))

\* Send(cmd): nothing for a nil command, else one new goroutine for cmd.
Spawn(ps, cmd) == IF cmd = NilCmd THEN ps ELSE ps (+) One(NewPath(cmd))

\* Number of goroutines a Send(cmd) starts.
SpawnCount(cmd) == IF cmd = NilCmd THEN 0 ELSE 1

\* Whether a send on the channel can complete by buffering, off by one.
CanBufferOffByOne(q, cap) == Len(q) <= cap

\* Whether a send on the channel can complete by buffering.
CanBuffer(q, cap) == Len(q) < cap

\* A goroutine without the type assertion on batched: a batch goes to the
\* channel as the message "batch".
AfterInvokeNoUnroll(p, res) ==
    IF res.batched
    THEN One(Path("enqueue", p.cmd, "batch", <<>>, 0, p.el))
    ELSE IF res.msg = NoMsg THEN EmptyBag
         ELSE One(Path("enqueue", p.cmd, res.msg, <<>>, 0, p.el))

\* A goroutine that gives its message up when the channel has no room (a send
\* in a select with a default case).
AfterInvokeDropIfFull(p, res) ==
    IF res.batched
    THEN IF res.cmds = <<>> THEN EmptyBag
         ELSE One(Path("unroll", p.cmd, NoMsg, res.cmds, 0, 0))
    ELSE IF res.msg = NoMsg \/ ~CanBuffer(messages, capacity) THEN EmptyBag
         ELSE One(Path("enqueue", p.cmd, res.msg, <<>>, 0, p.el))

\* A goroutine that sends only the first command of a batch.
AfterInvokeFirstOnly(p, res) ==
    IF res.batched
    THEN IF res.cmds = <<>> THEN EmptyBag
         ELSE One(Path("unroll", p.cmd, NoMsg, <<Head(res.cmds)>>, 0, 0))
    ELSE IF res.msg = NoMsg THEN EmptyBag
         ELSE One(Path("enqueue", p.cmd, res.msg, <<>>, 0, p.el))

\* What the goroutine does with the value its command returned: return on
\* nil, walk the batch, or go to the channel send.
AfterInvoke(p, res) ==
    IF res.batched
    THEN IF res.cmds = <<>> THEN EmptyBag
         ELSE One(Path("unroll", p.cmd, NoMsg, res.cmds, 0, 0))
    ELSE IF res.msg = NoMsg THEN EmptyBag
         ELSE One(Path("enqueue", p.cmd, res.msg, <<>>, 0, p.el))

\* ------------------------------------------------------------ construction
\* The options given to New: none, or one WithMessageBufferSize(n).
OptionLists == {<<>>} \cup {<<n>> : n \in 0..MaxBufferSize}

\* The capacity of the channel New ends with: the default, replaced by each
\* option in turn.
RECURSIVE ApplyOptions(_, _)
ApplyOptions(cap, opts) ==
    IF opts = <<>> THEN cap ELSE ApplyOptions(Head(opts), Tail(opts))

\* A New that calls Init on the state it is given and sends the command.
InitCallsInit ==
    /\ options \in OptionLists
    /\ capacity = ApplyOptions(DefaultMessageBufferSize, options)
    /\ messages = <<>>
    /\ state = "S0"
    /\ ctxDone = FALSE
    /\ loopPc = "select"
    /\ paths = Spawn(EmptyBag, StateInit("S0"))
    /\ sends = 0
    /\ sentBag = EmptyBag
    /\ spawned = SpawnCount(StateInit("S0"))
    /\ enqueued = <<>>
    /\ updates = <<>>
    /\ initCalls = <<"S0">>

\* New(ctx, initialState, opts...)
Init ==
    /\ options \in OptionLists
    /\ capacity = ApplyOptions(DefaultMessageBufferSize, options)
    /\ messages = <<>>
    /\ state = "S0"
    /\ ctxDone = FALSE
    /\ loopPc = "select"
    /\ paths = EmptyBag
    /\ sends = 0
    /\ sentBag = EmptyBag
    /\ spawned = 0
    /\ enqueued = <<>>
    /\ updates = <<>>
    /\ initCalls = <<>>

\* The commands callers pass to Send.
SendCmds ==
    { NilCmd,
      ToCmd(NoMsg),
      ToCmd("m"),
      ToCmd("ping"),
      ToCmd("start"),
      Batch(<<>>),
      Batch(<<ToCmd("b1"), NilCmd, Batch(<<ToCmd("b2")>>)>>),
      Timer(1, "t"),
      Timer(-1, "u") }

\* ------------------------------------------------------ spawned goroutines
\* msg := cmd() for a command that returns at once, and the branch on msg.
Run(p) ==
    /\ p.pc = "run"
    /\ p.cmd.kind # "timer"
    /\ paths' = (paths (-) One(p)) (+) AfterInvoke(p, Invoke(p.cmd))
    /\ UNCHANGED <<messages, options, capacity, state, ctxDone, loopPc, sends, sentBag,
                   spawned, enqueued, updates, initCalls>>

\* msg := cmd() for a Timer: clamp the duration and start waiting.
TimerStart(p) ==
    /\ p.pc = "run"
    /\ p.cmd.kind = "timer"
    /\ paths' = (paths (-) One(p))
                  (+) One(Path("timer", p.cmd, NoMsg, <<>>, ClampDuration(p.cmd.d), 0))
    /\ UNCHANGED <<messages, options, capacity, state, ctxDone, loopPc, sends, sentBag,
                   spawned, enqueued, updates, initCalls>>

\* A timer whose channel is ready from the start.
TimerExpiredAtOnce(rem) == TRUE

\* Whether a timer with rem left has put its value on timer.C.
TimerExpired(rem) == rem = 0

\* <-timer.C returns: the closure returns its message, and the branch on msg.
TimerFire(p) ==
    /\ p.pc = "timer"
    /\ TimerExpired(p.rem)
    /\ paths' = (paths (-) One(p)) (+) AfterInvoke(p, Invoke(p.cmd))
    /\ UNCHANGED <<messages, options, capacity, state, ctxDone, loopPc, sends, sentBag,
                   spawned, enqueued, updates, initCalls>>

\* One unit of time passes for a waiting timer.
TickPath(p) ==
    IF p.pc = "timer" /\ p.rem > 0
    THEN [p EXCEPT !.rem = p.rem - 1, !.el = p.el + 1]
    ELSE p

\* The bag of the goroutines of ps after one unit of time.
TickAll(ps) ==
    LET old == BagToSet(ps)
        new == {TickPath(p) : p \in old}
    IN  [q \in new |-> SumSet({p \in old : TickPath(p) = q}, ps)]

\* Time passes while some timer is still running.
Tick ==
    /\ \E p \in BagToSet(paths) : p.pc = "timer" /\ p.rem > 0
    /\ paths' = TickAll(paths)
    /\ UNCHANGED <<messages, options, capacity, state, ctxDone, loopPc, sends, sentBag,
                   spawned, enqueued, updates, initCalls>>

\* A range loop that runs the commands of a batch one after the other: the
\* next one is sent when no command is running or at the channel send.
UnrollInOrder(p) ==
    /\ p.pc = "unroll"
    /\ \A q \in BagToSet(paths) : q.pc = "unroll"
    /\ LET c == Head(p.rest)
           left == Tail(p.rest)
           others == paths (-) One(p)
           self == IF left = <<>> THEN EmptyBag ELSE One([p EXCEPT !.rest = left])
       IN  /\ paths' = Spawn(others (+) self, c)
           /\ spawned' = spawned + SpawnCount(c)
    /\ UNCHANGED <<messages, options, capacity, state, ctxDone, loopPc, sends, sentBag,
                   enqueued, updates, initCalls>>

\* One iteration of the range loop over a batch: stm.Send(batchCmd); the
\* goroutine returns after the last one.
Unroll(p) ==
    /\ p.pc = "unroll"
    /\ LET c == Head(p.rest)
           left == Tail(p.rest)
           others == paths (-) One(p)
           self == IF left = <<>> THEN EmptyBag ELSE One([p EXCEPT !.rest = left])
       IN  /\ paths' = Spawn(others (+) self, c)
           /\ spawned' = spawned + SpawnCount(c)
    /\ UNCHANGED <<messages, options, capacity, state, ctxDone, loopPc, sends, sentBag,
                   enqueued, updates, initCalls>>

\* stm.messages <- msg completes by putting msg in the buffer.
Enqueue(p) ==
    /\ p.pc = "enqueue"
    /\ CanBuffer(messages, capacity)
    /\ messages' = Append(messages, p.msg)
    /\ enqueued' = Append(enqueued, p.msg)
    /\ paths' = paths (-) One(p)
    /\ UNCHANGED <<options, capacity, state, ctxDone, loopPc, sends, sentBag, spawned,
                   updates, initCalls>>

\* ------------------------------------------------------- the scheduler loop
\* A message case that sends the command Update returned only once the channel
\* has room for its message.
HandleMsgWaitsForRoom(msg, ps) ==
    LET r == StateUpdate(state, msg)
    IN  /\ r.cmd = NilCmd \/ CanBuffer(messages, capacity)
        /\ state' = r.state
        /\ updates' = Append(updates, <<state, msg>>)
        /\ initCalls' = initCalls \o r.inited
        /\ paths' = Spawn(ps, r.cmd)
        /\ spawned' = spawned + SpawnCount(r.cmd)

\* A message case that drops the command Update returned.
HandleMsgDropsCmd(msg, ps) ==
    LET r == StateUpdate(state, msg)
    IN  /\ state' = r.state
        /\ updates' = Append(updates, <<state, msg>>)
        /\ initCalls' = initCalls \o r.inited
        /\ paths' = ps
        /\ spawned' = spawned

\* A message case that drops the state Update returned.
HandleMsgKeepsState(msg, ps) ==
    LET r == StateUpdate(state, msg)
    IN  /\ state' = state
        /\ updates' = Append(updates, <<state, msg>>)
        /\ initCalls' = initCalls \o r.inited
        /\ paths' = Spawn(ps, r.cmd)
        /\ spawned' = spawned + SpawnCount(r.cmd)

\* The body of the message case: Update on the current state, the new state
\* stored, the returned command sent.  ps are the goroutines alive.
HandleMsg(msg, ps) ==
    LET r == StateUpdate(state, msg)
    IN  /\ state' = r.state
        /\ updates' = Append(updates, <<state, msg>>)
        /\ initCalls' = initCalls \o r.inited
        /\ paths' = Spawn(ps, r.cmd)
        /\ spawned' = spawned + SpawnCount(r.cmd)

\* A receive that takes the newest message.
DequeueNewest(q) == [msg |-> q[Len(q)], rest |-> SubSeq(q, 1, Len(q) - 1)]

\* A receive from the buffer takes the oldest message.
Dequeue(q) == [msg |-> Head(q), rest |-> Tail(q)]

\* A loop that does not watch the context it was given.
DoneNeverReady(done) == FALSE

\* Whether case <-stm.ctx.Done() of the select can be taken.
DoneReady(done) == done

\* A Done case that leaves the select and not the for loop around it: the
\* loop is back at its select.
AtSelectAfterBreak(pc) == TRUE

\* Whether the loop is at its select.
AtSelect(pc) == pc = "select"

\* select takes case msg := <-stm.messages from the buffer.
LoopReceive ==
    /\ AtSelect(loopPc)
    /\ messages # <<>>
    /\ messages' = Dequeue(messages).rest
    /\ HandleMsg(Dequeue(messages).msg, paths)
    /\ UNCHANGED <<options, capacity, ctxDone, loopPc, sends, sentBag, enqueued>>

\* On a channel without buffer the send of p and the receive of the select
\* complete together.
Rendezvous(p) ==
    /\ AtSelect(loopPc)
    /\ p.pc = "enqueue"
    /\ capacity = 0
    /\ enqueued' = Append(enqueued, p.msg)
    /\ HandleMsg(p.msg, paths (-) One(p))
    /\ UNCHANGED <<messages, options, capacity, ctxDone, loopPc, sends, sentBag>>

\* A Done case that puts the machine back in its first state before the loop
\* returns.
LoopDoneResetsState ==
    /\ AtSelect(loopPc)
    /\ DoneReady(ctxDone)
    /\ loopPc' = "returned"
    /\ state' = "S0"
    /\ UNCHANGED <<messages, options, capacity, ctxDone, paths, sends, sentBag,
                   spawned, enqueued, updates, initCalls>>

\* select takes case <-stm.ctx.Done(): the loop returns.
LoopDone ==
    /\ AtSelect(loopPc)
    /\ DoneReady(ctxDone)
    /\ loopPc' = "returned"
    /\ UNCHANGED <<messages, options, capacity, state, ctxDone, paths, sends, sentBag,
                   spawned, enqueued, updates, initCalls>>

\* ------------------------------------------------------------- the callers
\* A Send that invokes the command and sends its message on the caller's own
\* path: the caller waits for room in the channel, or for the loop.
SendInline(cmd) ==
    /\ sends < MaxSends
    /\ sends' = sends + 1
    /\ sentBag' = sentBag (+) One(cmd)
    /\ IF cmd.kind = "tocmd" /\ cmd.msg # NoMsg
       THEN \/ /\ CanBuffer(messages, capacity)
               /\ messages' = Append(messages, cmd.msg)
               /\ enqueued' = Append(enqueued, cmd.msg)
               /\ UNCHANGED <<paths, spawned, state, updates, initCalls>>
            \/ /\ capacity = 0
               /\ AtSelect(loopPc)
               /\ enqueued' = Append(enqueued, cmd.msg)
               /\ HandleMsg(cmd.msg, paths)
               /\ UNCHANGED messages
       ELSE /\ paths' = Spawn(paths, cmd)
            /\ spawned' = spawned + SpawnCount(cmd)
            /\ UNCHANGED <<messages, enqueued, state, updates, initCalls>>
    /\ UNCHANGED <<options, capacity, ctxDone, loopPc>>

\* A caller outside the machine calls stm.Send(cmd).
Send(cmd) ==
    /\ sends < MaxSends
    /\ sends' = sends + 1
    /\ sentBag' = sentBag (+) One(cmd)
    /\ paths' = Spawn(paths, cmd)
    /\ spawned' = spawned + SpawnCount(cmd)
    /\ UNCHANGED <<messages, options, capacity, state, ctxDone, loopPc, enqueued,
                   updates, initCalls>>

\* The context given to New is cancelled.
Cancel ==
    /\ ~ctxDone
    /\ ctxDone' = TRUE
    /\ UNCHANGED <<messages, options, capacity, state, loopPc, paths, sends, sentBag,
                   spawned, enqueued, updates, initCalls>>

\* ------------------------------------------------------------ specification
Next ==
    \/ \E c \in SendCmds : Send(c)
    \/ Cancel
    \/ \E p \in BagToSet(paths) : Run(p)
    \/ \E p \in BagToSet(paths) : TimerStart(p)
    \/ \E p \in BagToSet(paths) : TimerFire(p)
    \/ Tick
    \/ \E p \in BagToSet(paths) : Unroll(p)
    \/ \E p \in BagToSet(paths) : Enqueue(p)
    \/ LoopReceive
    \/ \E p \in BagToSet(paths) : Rendezvous(p)
    \/ LoopDone

Spec == Init /\ [][Next]_vars

\* A goroutine started by Send takes a step.
GoStep ==
    \E p \in BagToSet(paths) :
        Run(p) \/ TimerStart(p) \/ TimerFire(p) \/ Unroll(p) \/ Enqueue(p)

\* The loop takes the message case of its select.
LoopMsg == LoopReceive \/ \E p \in BagToSet(paths) : Rendezvous(p)

\* The Go scheduler runs every goroutine that can take a step, time passes,
\* and a select with ready cases chooses among them at random, so a case that
\* stays ready is taken in the end.
Fairness ==
    /\ WF_vars(GoStep)
    /\ WF_vars(Tick)
    /\ WF_vars(LoopMsg)
    /\ WF_vars(LoopDone)

\* The steps of a machine whose context is never cancelled.
LiveNext ==
    \/ \E c \in SendCmds : Send(c)
    \/ GoStep
    \/ Tick
    \/ LoopMsg

\* The machine with no more assumed than that the Done case of the select,
\* ready from the cancellation on, is taken in the end.
FairSpec == Init /\ [][Next]_vars /\ WF_vars(LoopDone)

LiveSpec == Init /\ [][LiveNext]_vars /\ Fairness

\* ------------------------------------------------- TransitionTo on its own
\* The follow-up commands given to TransitionTo: none, one, two, and a nil
\* among them.
FollowUps ==
    { <<>>,
      <<ToCmd("after")>>,
      <<ToCmd("after"), ToCmd("m")>>,
      <<NilCmd, ToCmd("m")>> }

\* The message case of the loop for an Update that returns
\* TransitionTo(s, cs...): the state is stored and the command sent.
Transition(s, cs) ==
    LET r == TransitionTo(s, cs)
    IN  /\ Len(initCalls) < MaxTransitions
        /\ state' = r.state
        /\ initCalls' = initCalls \o r.inited
        /\ paths' = Spawn(paths, r.cmd)
        /\ spawned' = spawned + SpawnCount(r.cmd)
        /\ UNCHANGED <<messages, options, capacity, ctxDone, loopPc, sends, sentBag,
                       enqueued, updates>>

\* TransitionTo applied to every state and every list of follow-ups, and the
\* goroutines that invoke the command it returned and walk the batch.
TransNext ==
    \/ \E s \in States, cs \in FollowUps : Transition(s, cs)
    \/ \E p \in BagToSet(paths) : Run(p)
    \/ \E p \in BagToSet(paths) : Unroll(p)

TransSpec == Init /\ [][TransNext]_vars

\* ------------------------------------------------------------- accounting
\* Number of Update calls made with a message of the set M.
Delivered(M) == Cardinality({i \in DOMAIN updates : updates[i][2] \in M})

\* Number of messages of M in the channel.
Queued(M) == Cardinality({i \in DOMAIN messages : messages[i] \in M})

\* Number of messages of M that running cmd, and every command it fans out
\* to, returns.
RECURSIVE Yields(_, _)
YieldsSeq(cs, M) ==
    SumSet(DOMAIN cs, [i \in DOMAIN cs |-> Yields(cs[i], M)])
Yields(cmd, M) ==
    CASE cmd.kind = "nil"   -> 0
      [] cmd.kind = "batch" -> YieldsSeq(cmd.cmds, M)
      [] OTHER              -> IF cmd.msg \in M THEN 1 ELSE 0

\* Number of messages of M that goroutine p has still to hand over.
Holds(p, M) ==
    CASE p.pc = "run"     -> Yields(p.cmd, M)
      [] p.pc = "timer"   -> Yields(p.cmd, M)
      [] p.pc = "unroll"  -> YieldsSeq(p.rest, M)
      [] p.pc = "enqueue" -> IF p.msg \in M THEN 1 ELSE 0

\* Number of messages of M held by the goroutines alive.
InFlight(M) ==
    SumSet(BagToSet(paths), [p \in BagToSet(paths) |-> paths[p] * Holds(p, M)])

\* Number of messages of M asked for by the Send calls made from outside.
Sent(M) ==
    SumSet(BagToSet(sentBag),
           [c \in BagToSet(sentBag) |-> sentBag[c] * Yields(c, M)])

\* Number of messages of M asked for so far: by the Send calls made from
\* outside and by the commands the Update calls returned.
Asked(M) ==
    Sent(M) + SumSet(DOMAIN updates,
                     [i \in DOMAIN updates |->
                        Yields(StateUpdate(updates[i][1], updates[i][2]).cmd, M)])

\* Number of Send(cmd) calls made from outside.
SentCmd(cmd) == CopiesIn(cmd, sentBag)

\* The goroutines at the channel send.
Blocked == {p \in BagToSet(paths) : p.pc = "enqueue"}

\* Every message a command of the model can return.
Msgs == {"m", "ping", "pong", "start", "init", "init0", "after", "b1", "b2", "t", "u"}

\* The messages passed to Update so far, in order.
UpdateMsgs == [i \in DOMAIN updates |-> updates[i][2]]

\* Whether sequence a is the beginning of sequence b.
IsPrefix(a, b) == Len(a) <= Len(b) /\ a = SubSeq(b, 1, Len(a))

\* The channel is at capacity.
Full == Len(messages) = capacity

\* ------------------------------------------------------------------ claims

\* The messages callers pass directly as Send(ToCmd(m)).
DirectMsgs == {"m", "ping", "start"}

\* C1: every message m passed as Send(ToCmd(m)), by any callers and for any
\* channel capacity, is accounted for exactly once at every moment (held by
\* its goroutine, in the channel, or passed to one Update call: never lost,
\* never delivered twice), and unless the context is cancelled every such
\* message sent so far ends up passed to Update (callers make finitely many
\* Send calls).
C1_ExactlyOnce ==
    /\ [](\A m \in DirectMsgs :
            /\ SentCmd(ToCmd(m)) = InFlight({m}) + Queued({m}) + Delivered({m})
            /\ Delivered({m}) <= SentCmd(ToCmd(m)))
    /\ []<>(ctxDone \/ \A m \in DirectMsgs : Delivered({m}) = SentCmd(ToCmd(m)))

\* C1 witness: two Send(ToCmd("m")) calls, both delivered to Update.
C1_Witness == SentCmd(ToCmd("m")) = 2 /\ Delivered({"m"}) = 2

\* C2 as stated: once the context is cancelled no message is taken from the
\* channel and Update is not called again.
C2_Original ==
    [][ctxDone => (updates' = updates /\ Len(messages') >= Len(messages))]_vars

\* C2 (amended): once the loop has taken the Done case of its select (which it
\* only does after the context is cancelled) no message is taken from the
\* channel, Update is not called again and the state stays as it is, for the
\* messages already queued and for those of every later Send.
C2_StoppedForGood ==
    /\ [](loopPc = "returned" => ctxDone)
    /\ [][loopPc = "returned" =>
            /\ updates' = updates
            /\ state' = state
            /\ IsPrefix(messages, messages')]_vars

\* C2 witness: the loop has returned, a message is left in the channel and a
\* goroutine of a Send is still alive.
C2_Witness ==
    loopPc = "returned" /\ messages # <<>> /\ paths # EmptyBag /\ sends = MaxSends

\* The batch callers send.
SentBatch == Batch(<<ToCmd("b1"), NilCmd, Batch(<<ToCmd("b2")>>)>>)

\* The messages of the members of the batch callers send, and those of the
\* members of the batch Update returns through TransitionTo.
SentBatchMsgs == {"b1", "b2"}
UpdateBatchMsgs == {"init", "after"}

\* C3: on a machine that is never cancelled, every member of a batch passed to
\* Send or returned by Update is run and its message is accounted for exactly
\* once at every moment (held by a goroutine, in the channel, or passed to one
\* Update call), and all of them end up passed to Update, whatever the
\* interleaving.
C3_BatchFanOut ==
    /\ [](/\ \A m \in SentBatchMsgs :
                SentCmd(SentBatch) = InFlight({m}) + Queued({m}) + Delivered({m})
          /\ \A m \in UpdateBatchMsgs :
                Len(initCalls) = InFlight({m}) + Queued({m}) + Delivered({m}))
    /\ []<>(/\ \A m \in SentBatchMsgs : Delivered({m}) = SentCmd(SentBatch)
            /\ \A m \in UpdateBatchMsgs : Delivered({m}) = Len(initCalls))

\* C3 witness: the batch was sent twice and each member's message was
\* delivered twice.
C3_Witness ==
    SentCmd(SentBatch) = 2 /\ Delivered({"b1"}) = 2 /\ Delivered({"b2"}) = 2

\* C4 as stated: the messages of s.Init() and of the follow-up commands are
\* passed to s.Update (here s is S1).
C4_Original ==
    \A i \in DOMAIN updates :
        updates[i][2] \in {"init", "after"} => updates[i][1] = "S1"

\* C4 (amended): on a machine that is never cancelled the messages of s.Init()
\* and of every follow-up command are all passed to Update in the end, each to
\* the Update of the state that is current when it is taken from the channel:
\* that is s.Update as long as no Update call has replaced s since the
\* transition (here S1 until S1.Update("init") has moved to S2), and never the
\* Update of the state the transition left.
C4_TransitionDelivery ==
    /\ [](\A i \in DOMAIN updates :
            /\ updates[i][2] = "init" => updates[i][1] = "S1"
            /\ updates[i][2] = "after" =>
                  updates[i][1] =
                     (IF \E j \in 1..(i - 1) : updates[j][2] = "init"
                      THEN "S2" ELSE "S1"))
    /\ []<>(Delivered({"init"}) = Len(initCalls) /\ Delivered({"after"}) = Len(initCalls))

\* C4 witness: after a transition, the follow-up message was passed to
\* S1.Update and the init message was delivered too.
C4_Witness ==
    /\ \E i \in DOMAIN updates : updates[i] = <<"S1", "after">>
    /\ Delivered({"init"}) = 1

\* C5: Send(nil) changes nothing; a goroutine whose command returns nil ends
\* without touching the channel or the state; a nil command in a batch starts
\* no goroutine; and nil is never in the channel nor passed to Update.
C5_AbsentIsNoOp ==
    /\ [][Send(NilCmd) =>
            UNCHANGED <<messages, state, paths, spawned, enqueued, updates>>]_vars
    /\ [][\A p \in BagToSet(paths) :
            (p.pc = "run" /\ Invoke(p.cmd) = PlainResult(NoMsg) /\ Run(p)) =>
               /\ paths' = paths (-) One(p)
               /\ UNCHANGED <<messages, state, spawned, enqueued, updates>>]_vars
    /\ [][\A p \in BagToSet(paths) :
            (p.pc = "unroll" /\ Head(p.rest) = NilCmd /\ Unroll(p)) =>
               /\ BagCardinality(paths') <= BagCardinality(paths)
               /\ UNCHANGED <<messages, state, spawned, enqueued, updates>>]_vars
    /\ [](/\ \A i \in DOMAIN messages : messages[i] # NoMsg
          /\ \A i \in DOMAIN updates : updates[i][2] # NoMsg
          /\ \A p \in BagToSet(paths) :
                p.cmd # NilCmd /\ (p.pc = "enqueue" => p.msg # NoMsg))

\* C5 witness: Send(nil) and Send(ToCmd(nil)) were both called and nothing is
\* left of them: no goroutine, no message, no Update call.
C5_Witness ==
    /\ SentCmd(NilCmd) = 1 /\ SentCmd(ToCmd(NoMsg)) = 1
    /\ paths = EmptyBag /\ messages = <<>> /\ updates = <<>> /\ state = "S0"

\* C6: in every reachable state a caller's Send of any command can complete
\* at once (as long as callers still have a Send to make).
C6_SendNeverBlocks ==
    \A c \in SendCmds : sends < MaxSends => ENABLED Send(c)

\* C6 witness: the loop has returned, the channel is full, a goroutine is
\* blocked on its send, and a caller still has a Send to make.
C6_Witness ==
    /\ loopPc = "returned" /\ capacity > 0 /\ Full /\ Blocked # {}
    /\ sends < MaxSends

\* C7: the messages passed to Update are at every moment the beginning of the
\* sequence of messages in the order they entered the channel, and what is
\* left of that sequence is the content of the channel.
C7_Fifo ==
    /\ IsPrefix(UpdateMsgs, enqueued)
    /\ enqueued = UpdateMsgs \o messages

\* C7 witness: two different messages were queued together and have both
\* been passed to Update.
C7_Witness ==
    /\ Len(updates) >= 2 /\ updates[1][2] # updates[2][2]
    /\ capacity > 1 /\ Len(enqueued) > Len(updates)

\* C8: the channel never holds more than its capacity, which is the default
\* without option and the size of the last WithMessageBufferSize otherwise; a
\* goroutine at its send can complete it exactly when there is room (or, on a
\* channel without buffer, when the loop is at its select), and leaves the
\* send only by handing its message to the channel; every message asked for
\* is held by a goroutine, in the channel or delivered, and nothing else is.
C8_BoundedQueue ==
    /\ [](/\ Len(messages) <= capacity
          /\ capacity = (IF options = <<>> THEN DefaultMessageBufferSize
                         ELSE options[Len(options)])
          /\ Asked(Msgs) = InFlight(Msgs) + Queued(Msgs) + Delivered(Msgs)
          /\ Queued(Msgs) = Len(messages) /\ Delivered(Msgs) = Len(updates)
          /\ \A p \in Blocked :
                /\ p.msg \in Msgs
                /\ ENABLED Enqueue(p) <=> ~Full
                /\ ENABLED Rendezvous(p) <=> (capacity = 0 /\ loopPc = "select"))
    /\ [][\A p \in Blocked :
            CopiesIn(p, paths') < CopiesIn(p, paths) =>
               enqueued' = Append(enqueued, p.msg)]_vars

\* C8 witness: the channel is full while the loop runs, with a goroutine
\* waiting to send.
C8_Witness ==
    loopPc = "select" /\ capacity = 1 /\ Full /\ Blocked # {}

\* C9: cancelling the context and the return of the loop leave the goroutines
\* alive and able to go on (each can still invoke its command and reach its
\* send); once the loop has returned with the channel at capacity, the
\* content of the channel never changes and no goroutine at its send ever
\* leaves it.
C9_CancelLeaks ==
    /\ [][(Cancel \/ LoopDone) => paths' = paths]_vars
    /\ [](\A p \in BagToSet(paths) :
            /\ p.pc = "run" => ENABLED (Run(p) \/ TimerStart(p))
            /\ p.pc = "unroll" => ENABLED Unroll(p)
            /\ (p.pc = "timer" /\ p.rem = 0) => ENABLED TimerFire(p))
    /\ [][(loopPc = "returned" /\ Full) =>
            /\ messages' = messages
            /\ \A p \in Blocked : CopiesIn(p, paths') >= CopiesIn(p, paths)]_vars

\* C9 witness: the loop has returned with a full channel and two goroutines
\* stuck at their send.
C9_Witness ==
    /\ loopPc = "returned" /\ Full
    /\ SumSet(Blocked, [p \in Blocked |-> paths[p]]) >= 2

\* C10: once the context is cancelled the loop returns in the end, it returns
\* for no other reason, and once returned it stays returned whatever is sent
\* or arrives later.
C10_TerminatesForGood ==
    /\ ctxDone ~> (loopPc = "returned")
    /\ [](loopPc = "returned" => ctxDone)
    /\ [][loopPc = "returned" => loopPc' = "returned"]_vars

\* C10 witness: the loop has handled a message and then returned; a message
\* that arrived is left in the channel and a goroutine waits behind it.
C10_Witness ==
    loopPc = "returned" /\ Len(updates) >= 1 /\ messages # <<>> /\ Blocked # {}

\* C11: the current state changes only in a step in which the loop handles a
\* message: a Send, a step of a goroutine (invoking its command, walking a
\* batch, sending on the channel), the passing of time, the cancellation and
\* the return of the loop all leave it as it is.
C11_OnlyLoopWritesState ==
    /\ [][state' # state => LoopMsg]_vars
    /\ [][((\E c \in SendCmds : Send(c)) \/ GoStep \/ Tick \/ Cancel \/ LoopDone)
            => state' = state]_vars

\* C11 witness: the state has been replaced, and goroutines, a queued message
\* and the cancellation are all there.
C11_Witness ==
    state # "S0" /\ ctxDone /\ paths # EmptyBag /\ messages # <<>>

\* C12: the first Update call is made on the state given to New, every later
\* one on the state the call before it returned, the current state is the one
\* the last call returned, and a step makes at most one Update call.
C12_UpdateChain ==
    /\ [](/\ \A k \in DOMAIN updates :
                updates[k][1] =
                   (IF k = 1 THEN "S0"
                    ELSE StateUpdate(updates[k - 1][1], updates[k - 1][2]).state)
          /\ state =
                (IF updates = <<>> THEN "S0"
                 ELSE StateUpdate(updates[Len(updates)][1],
                                  updates[Len(updates)][2]).state))
    /\ [][Len(updates') <= Len(updates) + 1]_vars

\* C12 witness: three Update calls over the three states.
C12_Witness ==
    /\ Len(updates) >= 3
    /\ \E i, j \in DOMAIN updates : updates[i][1] = "S1" /\ updates[j][1] = "S2"

\* The messages of the Timer commands callers send.
TimerMsgs == {"t", "u"}

\* The goroutines of Timer commands that are past <-timer.C, at the channel
\* send, after having waited at least the duration asked for.
TimerWaited(m) ==
    {p \in Blocked : p.cmd.kind = "timer" /\ p.msg = m /\ p.cmd.msg = m
                        /\ p.el >= p.cmd.d /\ p.el >= 0}

\* C13: the message m of a Timer(d, m) sent to the machine goes to the channel,
\* and so to Update, only from a goroutine that has waited at least d units
\* of time since it invoked the command; each Timer sent accounts for exactly
\* one m at every moment and, in a machine that is not cancelled, m ends up
\* passed to Update; a Timer with a negative d waits as long as one with d = 0,
\* that is, not at all.
C13_TimerDelay ==
    /\ [](/\ \A m \in TimerMsgs :
               Sent({m}) = InFlight({m}) + Queued({m}) + Delivered({m})
          /\ \A p \in BagToSet(paths) :
               /\ (p.cmd.kind = "timer" /\ p.pc = "enqueue") => p \in TimerWaited(p.msg)
               /\ (p.pc = "timer" /\ p.cmd.d >= 0) => p.rem + p.el = p.cmd.d
               /\ (p.pc = "timer" /\ p.cmd.d < 0) =>
                     (p.rem = ClampDuration(0) /\ p.el = 0 /\ ENABLED TimerFire(p)))
    /\ [][\A m \in TimerMsgs :
            (Len(enqueued') > Len(enqueued) /\ enqueued'[Len(enqueued')] = m)
              => \E p \in TimerWaited(m) :
                    CopiesIn(p, paths') = CopiesIn(p, paths) - 1]_vars
    /\ []<>(Delivered(TimerMsgs) = Sent(TimerMsgs))

\* C13 witness: a Timer(1, "t") and a Timer(-1, "u") were sent, and both
\* messages have been passed to Update.
C13_Witness ==
    /\ SentCmd(Timer(1, "t")) = 1 /\ SentCmd(Timer(-1, "u")) = 1
    /\ Delivered({"t"}) = 1 /\ Delivered({"u"}) = 1

\* The states the Update calls made so far entered through TransitionTo, in
\* order.
RECURSIVE TransitionsIn(_)
TransitionsIn(us) ==
    IF us = <<>> THEN <<>>
    ELSE TransitionsIn(SubSeq(us, 1, Len(us) - 1))
           \o StateUpdate(us[Len(us)][1], us[Len(us)][2]).inited

PingPong == << <<"S0", "ping">>, <<"S0", "pong">> >>

\* Number of Update calls that returned ToCmd(pong): those of ping in S0.
PongsAsked == Cardinality({i \in DOMAIN updates : updates[i] = PingPong[1]})

\* The command returned by the Update call a step makes.
Returned(us) == StateUpdate(us[Len(us)][1], us[Len(us)][2]).cmd

\* C15: a step in which Update returns a command c that is not nil starts
\* exactly one goroutine, for c; the pong each Update of ping in S0 asks for is
\* accounted for exactly once at every moment and, in a machine that is not
\* cancelled, ends up passed to a later Update; when the only Send made is
\* Send(ToCmd(ping)), the Update calls are ping then pong and no other.
C15_Feedback ==
    /\ [][Len(updates') > Len(updates) =>
            LET c == Returned(updates')
            IN  /\ spawned' = spawned + (IF c = NilCmd THEN 0 ELSE 1)
                /\ c # NilCmd =>
                     CopiesIn(NewPath(c), paths') = CopiesIn(NewPath(c), paths) + 1]_vars
    /\ [](/\ PongsAsked = InFlight({"pong"}) + Queued({"pong"}) + Delivered({"pong"})
          /\ sentBag = One(ToCmd("ping")) => IsPrefix(updates, PingPong))
    /\ []<>(/\ Delivered({"pong"}) = PongsAsked
            /\ sentBag = One(ToCmd("ping")) => updates = PingPong)

\* C15 witness: after the single Send(ToCmd(ping)) Update was called with ping
\* and then with pong, and nothing is left to run.
C15_Witness ==
    /\ sentBag = One(ToCmd("ping"))
    /\ updates = PingPong
    /\ paths = EmptyBag /\ messages = <<>>

\* The goroutines waiting on a timer that has not expired.
Waiting == {p \in BagToSet(paths) : p.pc = "timer" /\ p.rem > 0}

\* C16: whatever goroutines are suspended, on a timer or at the send on a full
\* channel, a loop at its select can take its message case whenever a message
\* is there to receive: the oldest of a buffer that is not empty, or the one
\* offered by any goroutine at the send on a channel without buffer; so a full
\* channel with goroutines blocked on it never leaves the loop without a step.
C16_LoopNotStalled ==
    AtSelect(loopPc) =>
       /\ messages # <<>> => ENABLED LoopReceive
       /\ capacity = 0 => \A p \in Blocked : ENABLED Rendezvous(p)
       /\ (Full /\ Blocked # {}) => ENABLED LoopMsg

\* C16 witness: a loop at its select, not cancelled, with the channel full, a
\* goroutine blocked at the send and another waiting on its timer.
C16_Witness ==
    /\ AtSelect(loopPc) /\ ~ctxDone
    /\ capacity > 0 /\ Full
    /\ Blocked # {} /\ Waiting # {}

\* Whether message a was passed to Update before message b.
Before(a, b) ==
    \E i, j \in DOMAIN updates : i < j /\ updates[i][2] = a /\ updates[j][2] = b

\* C17: the commands of a batch are not sequenced: the walk over a batch
\* starts the next goroutine whatever the ones started before are doing, a
\* goroutine about to invoke its command can do so whatever the others are
\* doing, and of the goroutines at the channel send any one can complete its
\* send when the channel takes a message; so the messages of a batch, and
\* those of the Init command and the follow-ups of a TransitionTo, can reach
\* Update in either order.
C17_NoSequencing ==
    \A p \in BagToSet(paths) :
       /\ p.pc = "unroll" => ENABLED Unroll(p)
       /\ p.pc = "run" => ENABLED (Run(p) \/ TimerStart(p))
       /\ (p.pc = "enqueue" /\ CanBuffer(messages, capacity)) => ENABLED Enqueue(p)
       /\ (p.pc = "enqueue" /\ capacity = 0 /\ AtSelect(loopPc)) => ENABLED Rendezvous(p)

\* C17 witness: one batch and one start were sent; the message of the second
\* command of the batch reached Update before that of the first, and the
\* message of the follow-up of the TransitionTo before that of Init.
C17_Witness ==
    /\ SentCmd(SentBatch) = 1 /\ SentCmd(ToCmd("start")) = 1
    /\ Before("b2", "b1")
    /\ Before("after", "init")

\* Whether sequence a is the end of sequence b.
IsSuffix(a, b) == Len(a) <= Len(b) /\ a = SubSeq(b, Len(b) - Len(a) + 1, Len(b))

\* C18: TransitionTo(s, f1, ..., fn) calls Init of s once, hands back s as the
\* new state, and a command that is not run by TransitionTo (it is sent as
\* one command, no message is produced) and that, invoked, returns the batch
\* of the command Init returned followed by f1, ..., fn, which the walk sends
\* in that order; this for an Init that returns nil and for n = 0 as well.
C18_TransitionTo ==
    /\ [][\A s \in States, cs \in FollowUps :
            Transition(s, cs) =>
               LET r == TransitionTo(s, cs)
               IN  /\ r.state = s /\ state' = s
                   /\ r.inited = <<s>> /\ initCalls' = Append(initCalls, s)
                   /\ Invoke(r.cmd) = BatchedResult(<<StateInit(s)>> \o cs)
                   /\ Len(Invoke(r.cmd).cmds) = Len(cs) + 1
                   /\ paths' = paths (+) One(NewPath(r.cmd))
                   /\ UNCHANGED <<messages, enqueued, updates>>]_vars
    /\ [](\A p \in BagToSet(paths) :
            /\ p.cmd.kind = "batch" =>
                 \E s \in States, cs \in FollowUps : p.cmd.cmds = <<StateInit(s)>> \o cs
            /\ p.pc = "unroll" => IsSuffix(p.rest, p.cmd.cmds))

\* C18 witness: a TransitionTo to S2, whose Init returns nil, with no
\* follow-up, and one to S1 with two follow-ups; both batches are being
\* walked, the second with the Init command and the first follow-up sent.
C18_Witness ==
    /\ initCalls = <<"S2", "S1">> /\ state = "S1"
    /\ \E p \in BagToSet(paths) : p.pc = "unroll" /\ p.cmd.cmds = <<NilCmd>>
    /\ \E p \in BagToSet(paths) :
          /\ p.pc = "unroll" /\ Len(p.cmd.cmds) = 3 /\ Len(p.rest) = 1
          /\ CopiesIn(NewPath(ToCmd("init")), paths) = 1

\* C19: a batch is never a message: what the goroutines send on the channel,
\* what the channel holds and what Update is called with are messages that
\* commands other than Batch return; the messages of a batch within a batch
\* are accounted for like any other, each exactly once; invoking Batch() with
\* no command ends its goroutine with nothing sent, started or passed to
\* Update.
C19_BatchNotAMessage ==
    /\ [](/\ \A p \in Blocked : p.msg \in Msgs
          /\ \A i \in DOMAIN messages : messages[i] \in Msgs
          /\ \A i \in DOMAIN enqueued : enqueued[i] \in Msgs
          /\ \A i \in DOMAIN updates : updates[i][2] \in Msgs
          /\ \A m \in {"b1", "b2"} :
               SentCmd(SentBatch) = InFlight({m}) + Queued({m}) + Delivered({m}))
    /\ [][\A p \in BagToSet(paths) :
            (p.cmd = Batch(<<>>) /\ Run(p)) =>
               /\ paths' = paths (-) One(p)
               /\ UNCHANGED <<messages, enqueued, updates, spawned>>]_vars

\* C19 witness: Batch() and the batch with a batch inside were sent and all
\* their goroutines are gone: Update was called with b1 and b2 and nothing
\* else.
C19_Witness ==
    /\ SentCmd(Batch(<<>>)) = 1 /\ SentCmd(SentBatch) = 1
    /\ paths = EmptyBag /\ messages = <<>>
    /\ Len(updates) = 2 /\ Delivered({"b1"}) = 1 /\ Delivered({"b2"}) = 1

\* Number of Send calls with a command that is not nil that sending cmd leads
\* to: one for cmd, and those of the commands of the batch it returns.
RECURSIVE Nodes(_)
NodesSeq(cs) == SumSet(DOMAIN cs, [i \in DOMAIN cs |-> Nodes(cs[i])])
Nodes(cmd) ==
    CASE cmd.kind = "nil"   -> 0
      [] cmd.kind = "batch" -> 1 + NodesSeq(cmd.cmds)
      [] OTHER              -> 1

\* Number of goroutines still to be started on behalf of goroutine p.
ToSpawn(p) ==
    CASE p.pc = "run"    -> Nodes(p.cmd) - 1
      [] p.pc = "unroll" -> NodesSeq(p.rest)
      [] OTHER           -> 0

\* Number of Send calls with a command that is not nil that the Send calls
\* from outside and the commands Update returned lead to.
NodesAsked ==
    SumSet(BagToSet(sentBag), [c \in BagToSet(sentBag) |-> sentBag[c] * Nodes(c)])
      + SumSet(DOMAIN updates,
               [i \in DOMAIN updates |->
                  Nodes(StateUpdate(updates[i][1], updates[i][2]).cmd)])

\* C20: every Send of a command that is not nil starts exactly one goroutine,
\* about to invoke that command: a Send from outside adds one goroutine to
\* those alive, one step of the walk over a batch adds one for the command it
\* sends, and the goroutines started so far and still to be started add up to
\* one per command sent from outside, returned by Update or found in a batch;
\* no number of goroutines alive or blocked keeps the walk from its next Send.
C20_OnePathPerCommand ==
    /\ [][\A c \in SendCmds :
            Send(c) =>
               /\ paths' = (IF c = NilCmd THEN paths ELSE paths (+) One(NewPath(c)))
               /\ spawned' = spawned + (IF c = NilCmd THEN 0 ELSE 1)]_vars
    /\ [][\A p \in BagToSet(paths) :
            Unroll(p) =>
               LET c == Head(p.rest)
               IN  /\ spawned' = spawned + (IF c = NilCmd THEN 0 ELSE 1)
                   /\ c # NilCmd =>
                        CopiesIn(NewPath(c), paths') = CopiesIn(NewPath(c), paths) + 1]_vars
    /\ [](/\ spawned + SumSet(BagToSet(paths),
                              [p \in BagToSet(paths) |-> paths[p] * ToSpawn(p)])
             = NodesAsked
          /\ BagCardinality(paths) <= spawned
          /\ \A p \in BagToSet(paths) : p.pc = "unroll" => ENABLED Unroll(p))

\* C20 witness: with the channel full and two goroutines blocked at the send,
\* two more have been started and are about to invoke their commands.
C20_Witness ==
    /\ Full
    /\ SumSet(Blocked, paths) >= 2
    /\ SumSet({p \in BagToSet(paths) : p.pc = "run"}, paths) >= 2

====
